---------------------------- MODULE Spec2Model ----------------------------
(***************************************************************************)
(* Terragrunt Automation API (elmomk/hcl_api):                             *)
(*   POST /tf/vpc  ->  schema validation (schemas/terragrunt_example.py)   *)
(*                 ->  create_vpc       (routers/config_creation.py)       *)
(*                 ->  generate_terragrunt_hcl_from_model                  *)
(*                                      (library/json2hcl.py)              *)
(*                                                                         *)
(* Representation.                                                         *)
(*  - A JSON value / a Python plain value is a tagged record               *)
(*    [kind, val]; kind is one of "object" (val: sequence of <<key,        *)
(*    value>> pairs, in insertion order, like a Python dict), "list",      *)
(*    "string", "number", "bool", "null", and "nobody" for a request       *)
(*    without a body.                                                      *)
(*    A number is the pair <<n, d>> of the rational n/d, d > 0 (7 is       *)
(*    <<7, 1>>, 1.0 is <<1, 1>>, 0.5 is <<1, 2>>).                         *)
(*  - A path string is the sequence of its components, "/" first when the  *)
(*    path is absolute ("~" or "~name" first when it starts with a tilde). *)
(*  - A string given to a bool field is the sequence of its characters.    *)
(*  - A text (the HCL output, a file's content) is a string of bytes.      *)
(***************************************************************************)
EXTENDS Integers, Sequences, FiniteSets, TLC

\* ------------------------------------------------------------ bounds ----
\* Requests accepted by the server in one behaviour.
MaxRequests == 2
\* The largest file-size limit, in bytes, the environment may impose.
MaxFileBytes == 520
\* Worker processes of the multi-process deployment (SpecWorkers).
NWorkers == 2
\* The multi-process deployment is run under every WorkerLimitStep-th limit.
WorkerLimitStep == 40

\* ------------------------------------------------------------- state ----
VARIABLES
    pc,             \* per worker: idle, validated, prepared, opened, returning
    pid,            \* per worker: index in Payloads of the request in hand
    payload,        \* per worker: the validated VPC object
    output_path,    \* per worker: the resolved destination
    hcl_content,    \* per worker: the text the converter produced
    resp,           \* per worker: the response being returned
    start,          \* per worker: the file system when the request came in
    files,          \* file system: path -> content, for the regular files
    dirs,           \* file system: the directories
    hcl2_installed, \* whether `from hcl2.api import ...` succeeds
    fsize_limit,    \* how much of a file the device lets a process write
    served,         \* requests accepted so far
    prev,           \* the client's record of the last finished exchange
    lastWrite       \* path -> the last text a write sent to it
vars == <<pc, pid, payload, output_path, hcl_content, resp, start, files,
          dirs, hcl2_installed, fsize_limit, served, prev, lastWrite>>

Workers == 1..NWorkers

\* --------------------------------------------------- plain JSON values ---
JStr(s)   == [kind |-> "string", val |-> s]
JNum(n, d) == [kind |-> "number", val |-> <<n, d>>]
JBool(b)  == [kind |-> "bool",   val |-> IF b THEN "true" ELSE "false"]
JNull     == [kind |-> "null",   val |-> ""]
JList(s)  == [kind |-> "list",   val |-> s]
JObj(ps)  == [kind |-> "object", val |-> ps]
NoBody    == [kind |-> "nobody", val |-> ""]

\* dict lookups: `k in d` and d[k] (a repeated key keeps its last value)
Has(o, k) == o.kind = "object" /\ \E i \in 1..Len(o.val) : o.val[i][1] = k
Get(o, k) ==
    LET i == CHOOSE n \in 1..Len(o.val) :
                 /\ o.val[n][1] = k
                 /\ \A m \in (n+1)..Len(o.val) : o.val[m][1] # k
    IN  o.val[i][2]
\* d[k] = v: an existing key keeps its position, a new key goes last
SetKey(o, k, v) ==
    IF Has(o, k)
    THEN JObj([i \in 1..Len(o.val) |->
                 IF o.val[i][1] = k THEN <<k, v>> ELSE o.val[i]])
    ELSE JObj(Append(o.val, <<k, v>>))

\* ------------------------------------------------- schema: constants ----
Sentinel      == "find_in_parent_folders()"
DefaultSource == "git::git@github.com:my-org/terraform-modules.git//vpc?ref=v1.2.0"
DefaultConfPath      == <<"/", "tmp", "terragrunt_vpc.hcl">>
DefaultVpcName       == "production-vpc"
DefaultVpcCidr       == "10.0.0.0/16"
DefaultPublicSubnets == <<"10.0.1.0/24", "10.0.2.0/24">>
DefaultTags          == << <<"project", "web-app">>, <<"environment", "prod">> >>

\* ------------------------------------------------ schema: field rules ---
Err(loc, type) == [loc |-> loc, type |-> type]

\* the text of index i in an error location (list items count from 0)
Idx(i) == ToString(i - 1)

\* str field
StrErrs(o, k, loc, required) ==
    IF ~Has(o, k)
    THEN IF required THEN {Err(Append(loc, k), "missing")} ELSE {}
    ELSE IF Get(o, k).kind = "string" THEN {}
         ELSE {Err(Append(loc, k), "string_type")}
StrVal(o, k, default) ==
    IF Has(o, k) /\ Get(o, k).kind = "string" THEN Get(o, k).val ELSE default

\* str | None field, default None
OptStrErrs(o, k, loc) ==
    IF ~Has(o, k) \/ Get(o, k).kind \in {"string", "null"} THEN {}
    ELSE {Err(Append(loc, k), "string_type")}
OptStrVal(o, k) ==
    IF Has(o, k) /\ Get(o, k).kind = "string" THEN <<Get(o, k).val>> ELSE <<>>

\* bool field, lax mode.  A bool is taken as it is; a string is compared
\* without regard to ASCII case with the spellings below; a number must be
\* 0 or 1 (0.0 and 1.0 included).
UpperLetters == <<"A", "B", "C", "D", "E", "F", "G", "H", "I", "J", "K", "L", "M",
                  "N", "O", "P", "Q", "R", "S", "T", "U", "V", "W", "X", "Y", "Z">>
LowerLetters == <<"a", "b", "c", "d", "e", "f", "g", "h", "i", "j", "k", "l", "m",
                  "n", "o", "p", "q", "r", "s", "t", "u", "v", "w", "x", "y", "z">>
LowerChar(c) ==
    IF \E i \in 1..Len(UpperLetters) : UpperLetters[i] = c
    THEN LowerLetters[CHOOSE i \in 1..Len(UpperLetters) : UpperLetters[i] = c]
    ELSE c
AsciiLower(cs) == [i \in 1..Len(cs) |-> LowerChar(cs[i])]
BoolTrue  == {<<"1">>, <<"o", "n">>, <<"t">>, <<"t", "r", "u", "e">>,
              <<"y">>, <<"y", "e", "s">>}
BoolFalse == {<<"0">>, <<"o", "f", "f">>, <<"f">>, <<"f", "a", "l", "s", "e">>,
              <<"n">>, <<"n", "o">>}
BoolOk(j) ==
    \/ j.kind = "bool"
    \/ j.kind = "number" /\ (j.val[1] = 0 \/ j.val[1] = j.val[2])
    \/ j.kind = "string" /\ AsciiLower(j.val) \in BoolTrue \cup BoolFalse
\* a string, or a whole number, that is no boolean fails to parse; a value
\* of any other kind (a fraction too) has the wrong type
BoolErrType(j) ==
    IF \/ j.kind = "string"
       \/ j.kind = "number" /\ j.val[1] % j.val[2] = 0
    THEN "bool_parsing" ELSE "bool_type"
BoolErrs(o, k, loc) ==
    IF ~Has(o, k) \/ BoolOk(Get(o, k)) THEN {}
    ELSE {Err(Append(loc, k), BoolErrType(Get(o, k)))}
BoolVal(o, k, default) ==
    IF Has(o, k) /\ BoolOk(Get(o, k))
    THEN CASE Get(o, k).kind = "bool"   -> Get(o, k).val = "true"
           [] Get(o, k).kind = "number" -> Get(o, k).val[1] # 0
           [] OTHER -> AsciiLower(Get(o, k).val) \in BoolTrue
    ELSE default

\* list[str] field
ListStrErrs(o, k, loc) ==
    IF ~Has(o, k) THEN {}
    ELSE IF Get(o, k).kind # "list" THEN {Err(Append(loc, k), "list_type")}
    ELSE {Err(Append(loc, k) \o <<Idx(i)>>, "string_type") :
            i \in {n \in 1..Len(Get(o, k).val) :
                      Get(o, k).val[n].kind # "string"}}
ListStrVal(o, k, default) ==
    IF Has(o, k) /\ Get(o, k).kind = "list"
    THEN [i \in 1..Len(Get(o, k).val) |-> Get(o, k).val[i].val]
    ELSE default

\* dict[str, str] field
DictStrErrs(o, k, loc) ==
    IF ~Has(o, k) THEN {}
    ELSE IF Get(o, k).kind # "object" THEN {Err(Append(loc, k), "dict_type")}
    ELSE {Err(Append(loc, k) \o <<Get(o, k).val[i][1]>>, "string_type") :
            i \in {n \in 1..Len(Get(o, k).val) :
                      Get(o, k).val[n][2].kind # "string"}}
DictStrVal(o, k, default) ==
    IF Has(o, k) /\ Get(o, k).kind = "object"
    THEN [i \in 1..Len(Get(o, k).val) |->
             <<Get(o, k).val[i][1], Get(o, k).val[i][2].val>>]
    ELSE default

\* a nested Model field that is absent is built from no fields at all
\* (default_factory = the model class)
Sub(o, k) == IF Has(o, k) THEN Get(o, k) ELSE JObj(<<>>)

NotAModel(j, loc) == {Err(loc, "model_attributes_type")}

\* --------------------------------------------------- schema: records ----
\* A mutant of Include: an empty path falls back to the default.
IncludeNonEmpty(j) ==
    [path |-> IF StrVal(j, "path", Sentinel) = "" THEN Sentinel
              ELSE StrVal(j, "path", Sentinel)]

\* Literal["find_in_parent_folders()"] | str field with a default: any
\* string is taken by one member of the union or the other; a value that is
\* no string is refused by both, with one error for each member.
LiteralMember == "literal['find_in_parent_folders()']"
LiteralOrStrErrs(o, k, loc) ==
    IF ~Has(o, k) \/ Get(o, k).kind = "string" THEN {}
    ELSE {Err(Append(loc, k) \o <<LiteralMember>>, "literal_error"),
          Err(Append(loc, k) \o <<"str">>, "string_type")}

IncludeErrs(j, loc) ==
    IF j.kind # "object" THEN NotAModel(j, loc)
    ELSE LiteralOrStrErrs(j, "path", loc)
Include(j) == [path |-> StrVal(j, "path", Sentinel)]

HookErrs(j, loc) ==
    IF j.kind # "object" THEN NotAModel(j, loc)
    ELSE StrErrs(j, "name", loc, TRUE)
         \cup ListStrErrs(j, "commands", loc)
         \cup ListStrErrs(j, "execute", loc)
         \cup BoolErrs(j, "run_on_error", loc)
         \cup OptStrErrs(j, "working_dir", loc)
         \cup DictStrErrs(j, "env_vars", loc)
Hook(j) ==
    [name         |-> StrVal(j, "name", ""),
     commands     |-> ListStrVal(j, "commands", <<>>),
     execute      |-> ListStrVal(j, "execute", <<>>),
     run_on_error |-> BoolVal(j, "run_on_error", FALSE),
     working_dir  |-> OptStrVal(j, "working_dir"),
     env_vars     |-> DictStrVal(j, "env_vars", <<>>)]

ExtraArgumentsErrs(j, loc) ==
    IF j.kind # "object" THEN NotAModel(j, loc)
    ELSE StrErrs(j, "name", loc, TRUE)
         \cup ListStrErrs(j, "commands", loc)
         \cup ListStrErrs(j, "arguments", loc)
         \cup ListStrErrs(j, "optional_var_files", loc)
         \cup DictStrErrs(j, "env_vars", loc)
ExtraArguments(j) ==
    [name               |-> StrVal(j, "name", ""),
     commands           |-> ListStrVal(j, "commands", <<>>),
     arguments          |-> ListStrVal(j, "arguments", <<>>),
     optional_var_files |-> ListStrVal(j, "optional_var_files", <<>>),
     env_vars           |-> DictStrVal(j, "env_vars", <<>>)]

\* list[Hook] / list[ExtraArguments] fields: every item is validated and all
\* errors are collected
HookListErrs(o, k, loc) ==
    IF ~Has(o, k) THEN {}
    ELSE IF Get(o, k).kind # "list" THEN {Err(Append(loc, k), "list_type")}
    ELSE UNION {HookErrs(Get(o, k).val[i], Append(loc, k) \o <<Idx(i)>>) :
                  i \in 1..Len(Get(o, k).val)}
HookListVal(o, k) ==
    IF Has(o, k) /\ Get(o, k).kind = "list"
    THEN [i \in 1..Len(Get(o, k).val) |-> Hook(Get(o, k).val[i])]
    ELSE <<>>
ExtraArgumentsListErrs(o, k, loc) ==
    IF ~Has(o, k) THEN {}
    ELSE IF Get(o, k).kind # "list" THEN {Err(Append(loc, k), "list_type")}
    ELSE UNION {ExtraArgumentsErrs(Get(o, k).val[i], Append(loc, k) \o <<Idx(i)>>) :
                  i \in 1..Len(Get(o, k).val)}
ExtraArgumentsListVal(o, k) ==
    IF Has(o, k) /\ Get(o, k).kind = "list"
    THEN [i \in 1..Len(Get(o, k).val) |-> ExtraArguments(Get(o, k).val[i])]
    ELSE <<>>

TerraformErrs(j, loc) ==
    IF j.kind # "object" THEN NotAModel(j, loc)
    ELSE StrErrs(j, "source", loc, FALSE)
         \cup ListStrErrs(j, "include_in_copy", loc)
         \cup ExtraArgumentsListErrs(j, "extra_arguments", loc)
         \cup HookListErrs(j, "before_hook", loc)
         \cup HookListErrs(j, "after_hook", loc)
Terraform(j) ==
    [source          |-> StrVal(j, "source", DefaultSource),
     include_in_copy |-> ListStrVal(j, "include_in_copy", <<>>),
     extra_arguments |-> ExtraArgumentsListVal(j, "extra_arguments"),
     before_hook     |-> HookListVal(j, "before_hook"),
     after_hook      |-> HookListVal(j, "after_hook")]

\* A mutant of Inputs: the list and the mapping default to empty.
InputsEmptyDefaults(j) ==
    [vpc_name           |-> StrVal(j, "vpc_name", DefaultVpcName),
     vpc_cidr           |-> StrVal(j, "vpc_cidr", DefaultVpcCidr),
     enable_dns_support |-> BoolVal(j, "enable_dns_support", TRUE),
     public_subnets     |-> ListStrVal(j, "public_subnets", <<>>),
     tags               |-> DictStrVal(j, "tags", <<>>)]

InputsErrs(j, loc) ==
    IF j.kind # "object" THEN NotAModel(j, loc)
    ELSE StrErrs(j, "vpc_name", loc, FALSE)
         \cup StrErrs(j, "vpc_cidr", loc, FALSE)
         \cup BoolErrs(j, "enable_dns_support", loc)
         \cup ListStrErrs(j, "public_subnets", loc)
         \cup DictStrErrs(j, "tags", loc)
Inputs(j) ==
    [vpc_name           |-> StrVal(j, "vpc_name", DefaultVpcName),
     vpc_cidr           |-> StrVal(j, "vpc_cidr", DefaultVpcCidr),
     enable_dns_support |-> BoolVal(j, "enable_dns_support", TRUE),
     public_subnets     |-> ListStrVal(j, "public_subnets", DefaultPublicSubnets),
     tags               |-> DictStrVal(j, "tags", DefaultTags)]

TerragruntConfigErrs(j, loc) ==
    IF j.kind # "object" THEN NotAModel(j, loc)
    ELSE IncludeErrs(Sub(j, "include"), Append(loc, "include"))
         \cup TerraformErrs(Sub(j, "terraform"), Append(loc, "terraform"))
         \cup InputsErrs(Sub(j, "inputs"), Append(loc, "inputs"))
TerragruntConfig(j) ==
    [include   |-> Include(Sub(j, "include")),
     terraform |-> Terraform(Sub(j, "terraform")),
     inputs    |-> Inputs(Sub(j, "inputs"))]

VPCErrs(j, loc) ==
    IF j.kind # "object" THEN NotAModel(j, loc)
    ELSE StrErrs(j, "conf_path", loc, FALSE)
         \cup TerragruntConfigErrs(Sub(j, "terragrunt"), Append(loc, "terragrunt"))
VPC(j) ==
    [conf_path  |-> StrVal(j, "conf_path", DefaultConfPath),
     terragrunt |-> TerragruntConfig(Sub(j, "terragrunt"))]

\* The body parameter `payload: VPC` of the route: a request without a body
\* or with the body `null` is refused as having none, any other body is
\* validated against VPC.
BodyErrs(body) ==
    IF body.kind \in {"nobody", "null"} THEN {Err(<<"body">>, "missing")}
    ELSE VPCErrs(body, <<"body">>)

\* ------------------------------------------------------- model_dump -----
\* BaseModel.model_dump(): a fresh plain dict per record, keys in the order
\* the fields are declared; nested records and lists are dumped in turn.
DumpListStr(l) == JList([i \in 1..Len(l) |-> JStr(l[i])])
DumpDictStr(d) == JObj([i \in 1..Len(d) |-> <<d[i][1], JStr(d[i][2])>>])
DumpOptStr(o)  == IF o = <<>> THEN JNull ELSE JStr(o[1])

DumpInclude(m) == JObj(<< <<"path", JStr(m.path)>> >>)
DumpHook(m) ==
    JObj(<< <<"name", JStr(m.name)>>,
            <<"commands", DumpListStr(m.commands)>>,
            <<"execute", DumpListStr(m.execute)>>,
            <<"run_on_error", JBool(m.run_on_error)>>,
            <<"working_dir", DumpOptStr(m.working_dir)>>,
            <<"env_vars", DumpDictStr(m.env_vars)>> >>)
DumpExtraArguments(m) ==
    JObj(<< <<"name", JStr(m.name)>>,
            <<"commands", DumpListStr(m.commands)>>,
            <<"arguments", DumpListStr(m.arguments)>>,
            <<"optional_var_files", DumpListStr(m.optional_var_files)>>,
            <<"env_vars", DumpDictStr(m.env_vars)>> >>)
DumpTerraform(m) ==
    JObj(<< <<"source", JStr(m.source)>>,
            <<"include_in_copy", DumpListStr(m.include_in_copy)>>,
            <<"extra_arguments",
              JList([i \in 1..Len(m.extra_arguments) |->
                        DumpExtraArguments(m.extra_arguments[i])])>>,
            <<"before_hook",
              JList([i \in 1..Len(m.before_hook) |-> DumpHook(m.before_hook[i])])>>,
            <<"after_hook",
              JList([i \in 1..Len(m.after_hook) |-> DumpHook(m.after_hook[i])])>> >>)
DumpInputs(m) ==
    JObj(<< <<"vpc_name", JStr(m.vpc_name)>>,
            <<"vpc_cidr", JStr(m.vpc_cidr)>>,
            <<"enable_dns_support", JBool(m.enable_dns_support)>>,
            <<"public_subnets", DumpListStr(m.public_subnets)>>,
            <<"tags", DumpDictStr(m.tags)>> >>)
\* model.model_dump() of a TerragruntConfig
model_dump(m) ==
    JObj(<< <<"include", DumpInclude(m.include)>>,
            <<"terraform", DumpTerraform(m.terraform)>>,
            <<"inputs", DumpInputs(m.inputs)>> >>)
\* payload.model_dump() of a VPC
payload_dump(m) ==
    JObj(<< <<"conf_path", JStr(m.conf_path)>>,
            <<"terragrunt", model_dump(m.terragrunt)>> >>)

\* ------------------------------------------------------- converter ------
\* A mutant of Normalize: the sentinel only fills in a missing path.
NormalizeKeepSupplied(json_data) ==
    IF Has(json_data, "include") /\ Get(json_data, "include").kind = "object"
       /\ Has(Get(json_data, "include"), "path")
    THEN json_data
    ELSE SetKey(json_data, "include", JObj(<< <<"path", JStr(Sentinel)>> >>))

\* The normalisation of the include block.
Normalize(json_data) ==
    IF Has(json_data, "include") /\ Get(json_data, "include").kind = "object"
    THEN SetKey(json_data, "include",
                SetKey(Get(json_data, "include"), "path", JStr(Sentinel)))
    ELSE SetKey(json_data, "include", JObj(<< <<"path", JStr(Sentinel)>> >>))

\* writes(reverse_transform(tree)): the text of a plain tree.  One block per
\* top-level key whose value is a mapping; inside, `key = value` attributes,
\* strings quoted, booleans, numbers and null bare, lists in [ ], maps in { }.
\* The text is a string of bytes.
RECURSIVE Tokens(_), AttrTokens(_, _), ItemTokens(_, _)
Tokens(j) ==
    CASE j.kind = "string" -> "\"" \o j.val \o "\""
      [] j.kind = "list"   -> "[" \o ItemTokens(j.val, 1) \o "]"
      [] j.kind = "object" -> "{" \o AttrTokens(j.val, 1) \o "}"
      [] j.kind = "null"   -> "null"
      [] j.kind = "bool"   -> j.val
AttrTokens(ps, i) ==
    IF i > Len(ps) THEN ""
    ELSE ps[i][1] \o "=" \o Tokens(ps[i][2]) \o AttrTokens(ps, i + 1)
ItemTokens(l, i) ==
    IF i > Len(l) THEN ""
    ELSE Tokens(l[i]) \o (IF i < Len(l) THEN "," ELSE "")
         \o ItemTokens(l, i + 1)

RECURSIVE BlockTokens(_, _)
BlockTokens(ps, i) ==
    IF i > Len(ps) THEN ""
    ELSE (IF ps[i][2].kind = "object"
          THEN ps[i][1] \o "{" \o AttrTokens(ps[i][2].val, 1) \o "}"
          ELSE ps[i][1] \o "=" \o Tokens(ps[i][2]))
         \o BlockTokens(ps, i + 1)
\* A mutant of writes: the text carries a stamp that differs per request.
writesStamped(json_data) ==
    BlockTokens(json_data.val, 1) \o "#" \o ToString(served)

writes(json_data) == BlockTokens(json_data.val, 1)

\* A generic reader of the text, for the include block only: the string
\* given to `path` in the leading `include { ... }` block.
Unparsed == "<no include.path>"
IncludeHead == "include{path=\""
RECURSIVE UpToQuote(_, _)
UpToQuote(text, acc) ==
    IF text = "" THEN Unparsed
    ELSE IF Head(text) = "\""
         THEN (IF Len(text) >= 2 /\ SubSeq(text, 2, 2) = "}"
               THEN acc ELSE Unparsed)
         ELSE UpToQuote(Tail(text), acc \o Head(text))
ParseIncludePath(text) ==
    IF /\ Len(text) >= Len(IncludeHead)
       /\ SubSeq(text, 1, Len(IncludeHead)) = IncludeHead
    THEN UpToQuote(SubSeq(text, Len(IncludeHead) + 1, Len(text)), "")
    ELSE Unparsed

\* ------------------------------------------------------- paths ----------
Home == <<"/", "root">>
Cwd  == <<"/", "srv", "app">>

\* the password database: "~name" -> the home directory of user name
Passwd == [u \in {"~root"} |-> <<"/", "root">>]

\* os.path.expanduser: a leading ~ becomes $HOME, a leading ~name the home
\* directory of that user; ~name of an unknown user is left as it is.
expanduser(p) ==
    IF Len(p) > 0 /\ p[1] = "~" THEN Home \o Tail(p)
    ELSE IF Len(p) > 0 /\ p[1] \in DOMAIN Passwd THEN Passwd[p[1]] \o Tail(p)
    ELSE p

\* Path.resolve(): made absolute against the working directory, then "." and
\* ".." folded away (the modelled file system has no symbolic links).
RECURSIVE Fold(_, _)
Fold(done, rest) ==
    IF rest = <<>> THEN done
    ELSE IF Head(rest) = "." THEN Fold(done, Tail(rest))
    ELSE IF Head(rest) = ".."
         THEN Fold(IF Len(done) > 1 THEN SubSeq(done, 1, Len(done) - 1) ELSE done,
                   Tail(rest))
    ELSE Fold(Append(done, Head(rest)), Tail(rest))
resolve(p) ==
    LET abs == IF Len(p) > 0 /\ p[1] = "/" THEN p ELSE Cwd \o p
    IN  Fold(<<"/">>, Tail(abs))
\* output_path of create_vpc
OutputPath(conf_path) == resolve(expanduser(conf_path))
\* Path.parent
Parent(p) == IF Len(p) > 1 THEN SubSeq(p, 1, Len(p) - 1) ELSE p
\* p and the directories above it
Ancestors(p) == {SubSeq(p, 1, n) : n \in 1..Len(p)}

\* ------------------------------------------------------- file system ----
ReadOnlyDirs == {<<"/", "ro">>}
StaleText    == "# left by an earlier run"

\* Path.mkdir(parents=True, exist_ok=True) on d succeeds iff no component of
\* d is a regular file and, when something has to be created, the deepest
\* directory that exists may be written to.
Missing(d)  == {a \in Ancestors(d) : a \notin dirs}
Deepest(d)  ==
    CHOOSE a \in Ancestors(d) \cap dirs :
        \A b \in Ancestors(d) \cap dirs : Len(b) <= Len(a)
MkdirOk(d) ==
    /\ Ancestors(d) \cap DOMAIN files = {}
    /\ Missing(d) = {} \/ Deepest(d) \notin ReadOnlyDirs

\* open(path, "w") succeeds iff path is no directory, its parent is one, and
\* the file exists already or may be created in the parent.
OpenOk(path) ==
    /\ path \notin dirs
    /\ Parent(path) \in dirs
    /\ path \in DOMAIN files \/ Parent(path) \notin ReadOnlyDirs

Put(fs, path, data) ==
    [q \in DOMAIN fs \cup {path} |-> IF q = path THEN data ELSE fs[q]]

\* A mutant of OpenW: the file is opened without being truncated.
OpenKeep(fs, path) ==
    Put(fs, path, IF path \in DOMAIN fs THEN fs[path] ELSE "")

\* open(path, "w"): the file is created, or cut to length 0; the new
\* descriptor is at offset 0.
OpenW(fs, path) == Put(fs, path, "")

\* f.write(data) and the flush on close, from this descriptor's offset 0:
\* the bytes of data replace what the file holds there; the bytes of the
\* file that lie beyond the length of data stay.
Pwrite(old, data) ==
    IF Len(old) > Len(data)
    THEN data \o SubSeq(old, Len(data) + 1, Len(old))
    ELSE data

\* The file-size limit of the process, in bytes; NoLimit when it has none.
NoLimit == -1
Limits  == {NoLimit} \cup (0..MaxFileBytes)
\* What a write of data from offset 0 puts into the file under the limit:
\* all of it when it fits, else the bytes that fit, and the write raises.
Written(data, limit) ==
    IF limit = NoLimit \/ Len(data) <= limit THEN data
    ELSE SubSeq(data, 1, limit)

\* ------------------------------------------------------- requests -------
S(x) == JStr(x)
P(k, v) == <<k, v>>
TG(ps) == JObj(<< P("terragrunt", JObj(ps)) >>)
ExampleSource == "git::https://example.com/m.git?ref=v1.0.0"

Payloads == <<
  \* 1: no body at all
  NoBody,
  \* 2: everything defaulted
  JObj(<<>>),
  \* 3: destination and source given
  JObj(<< P("conf_path", S(<<"/", "tmp", "x.hcl">>)),
          P("terragrunt", JObj(<< P("terraform",
              JObj(<< P("source", S(ExampleSource)) >>)) >>)) >>),
  \* 4: terraform without source
  TG(<< P("terraform", JObj(<< P("include_in_copy",
                                 JList(<< S("README.md") >>)) >>)) >>),
  \* 5: include.path empty
  TG(<< P("include", JObj(<< P("path", S("")) >>)) >>),
  \* 6: include.path an explicit path
  TG(<< P("include", JObj(<< P("path", S("../root.hcl")) >>)) >>),
  \* 7: include.path the sentinel
  TG(<< P("include", JObj(<< P("path", S(Sentinel)) >>)) >>),
  \* 8: include.path of the wrong type
  TG(<< P("include", JObj(<< P("path", JNum(7, 1)) >>)) >>),
  \* 9: a hook with only its name
  TG(<< P("terraform", JObj(<< P("source", S(ExampleSource)),
          P("before_hook", JList(<< JObj(<< P("name", S("fmt")) >>) >>)) >>)) >>),
  \* 10: a hook and an argument set without their names, no boolean
  TG(<< P("terraform", JObj(<<
          P("before_hook", JList(<< JObj(<< P("commands",
                                   JList(<< S("plan") >>)),
              P("run_on_error", S(<<"m", "a", "y", "b", "e">>)) >>) >>)),
          P("extra_arguments", JList(<< JObj(<<>>) >>)) >>)) >>),
  \* 11: empty include, empty inputs
  TG(<< P("include", JObj(<<>>)), P("inputs", JObj(<<>>)) >>),
  \* 12: inputs with empty subnets and tags
  TG(<< P("inputs", JObj(<< P("vpc_name", S("dev")),
          P("public_subnets", JList(<<>>)), P("tags", JObj(<<>>)) >>)) >>),
  \* 13: destination under the home directory
  JObj(<< P("conf_path", S(<<"~", "vpc.hcl">>)) >>),
  \* 14: the same destination spelt differently, another configuration
  JObj(<< P("conf_path", S(<<"/", "root", ".", "out", "..", "vpc.hcl">>)),
          P("terragrunt", JObj(<< P("inputs", JObj(<<
              P("vpc_name", S("dev")), P("tags", JObj(<<>>)),
              P("public_subnets", JList(<<>>)),
              P("enable_dns_support", S(<<"N", "o">>)) >>)) >>)) >>),
  \* 15: destination in a new directory under a read-only one
  JObj(<< P("conf_path", S(<<"/", "ro", "new", "vpc.hcl">>)) >>),
  \* 16: destination is a directory
  JObj(<< P("conf_path", S(<<"/", "tmp">>)) >>),
  \* 17: destination a new file in a read-only directory
  JObj(<< P("conf_path", S(<<"/", "ro", "vpc.hcl">>)) >>),
  \* 18: argument set and hook with their options, relative destination
  JObj(<< P("conf_path", S(<<"out", "vpc.hcl">>)),
          P("terragrunt", JObj(<< P("terraform", JObj(<<
              P("extra_arguments", JList(<< JObj(<< P("name", S("common")),
                  P("env_vars", JObj(<< P("TF_LOG", S("WARN")) >>)) >>) >>)),
              P("after_hook", JList(<< JObj(<< P("name", S("notify")),
                  P("working_dir", S(".")),
                  P("run_on_error", JNum(2, 2)) >>) >>)) >>)) >>)) >>),
  \* 19: destination of the wrong type, terraform null
  JObj(<< P("conf_path", JNum(7, 1)),
          P("terragrunt", JObj(<< P("terraform", JNull) >>)) >>),
  \* 20: terragrunt present and empty
  TG(<<>>),
  \* 21: destination below the default destination file
  JObj(<< P("conf_path", S(<<"/", "tmp", "terragrunt_vpc.hcl", "x.hcl">>)) >>),
  \* 22: the body null
  JNull,
  \* 23: destination under a named user's home, booleans spelt out
  JObj(<< P("conf_path", S(<<"~root", "vpc.hcl">>)),
          P("terragrunt", JObj(<< P("terraform", JObj(<<
              P("after_hook", JList(<< JObj(<< P("name", S("notify")),
                  P("run_on_error", S(<<"T", "R", "U", "E">>)) >>) >>)) >>)),
              P("inputs", JObj(<< P("enable_dns_support",
                                    JNum(0, 1)) >>)) >>)) >>)
>>
PayloadIds == 1..Len(Payloads)

\* ------------------------------------------------------- responses ------
NoResp == [status |-> 0, stage |-> "", detail |-> {}, hcl_path |-> <<>>,
           hcl |-> "", payload |-> JNull]
\* 422: the framework's answer to a body that fails validation
Invalid(errs) == [NoResp EXCEPT !.status = 422, !.stage = "validation",
                                !.detail = errs]
\* 500: an exception that left the handler
Failed(stage) == [NoResp EXCEPT !.status = 500, !.stage = stage]

\* 200: the dict create_vpc returns
ResponseBody(path, content, model) ==
    [NoResp EXCEPT !.status = 200, !.stage = "done", !.hcl_path = path,
                   !.hcl = content, !.payload = payload_dump(model)]

NoExchange == [pid |-> 0, status |-> 0, hcl_path |-> <<>>, hcl |-> "",
               file |-> ""]

\* ------------------------------------------------------- behaviour ------
Init ==
    /\ pc = [w \in Workers |-> "idle"]
    /\ pid = [w \in Workers |-> 0]
    /\ payload = [w \in Workers |-> <<>>]
    /\ output_path = [w \in Workers |-> <<>>]
    /\ hcl_content = [w \in Workers |-> ""]
    /\ resp = [w \in Workers |-> NoResp]
    /\ start = [w \in Workers |-> <<>>]
    /\ files = [q \in {DefaultConfPath} |-> StaleText]
    /\ dirs = {<<"/">>, <<"/", "tmp">>, <<"/", "root">>, <<"/", "ro">>,
               <<"/", "srv">>, Cwd}
    /\ hcl2_installed \in BOOLEAN
    \* without the encoder no request reaches a write: the limit plays no part
    /\ fsize_limit \in (IF hcl2_installed THEN Limits ELSE {NoLimit})
    /\ served = 0
    /\ prev = NoExchange
    /\ lastWrite = <<>>

\* A mutant of Receive: the handler is called whatever validation found.
ReceiveUnchecked(w, p) ==
    /\ pc[w] = "idle"
    /\ served < MaxRequests
    /\ served' = served + 1
    /\ pid' = [pid EXCEPT ![w] = p]
    /\ start' = [start EXCEPT ![w] = [files |-> files, dirs |-> dirs]]
    /\ pc' = [pc EXCEPT ![w] = "validated"]
    /\ payload' = [payload EXCEPT ![w] = VPC(Payloads[p])]
    /\ UNCHANGED <<resp, output_path, hcl_content, files, dirs,
                   hcl2_installed, fsize_limit, prev, lastWrite>>

\* The framework reads the body and validates it against VPC before the
\* handler runs; a body with errors is answered 422 and the handler is
\* not called.
Receive(w, p) ==
    /\ pc[w] = "idle"
    /\ served < MaxRequests
    /\ served' = served + 1
    /\ pid' = [pid EXCEPT ![w] = p]
    /\ start' = [start EXCEPT ![w] = [files |-> files, dirs |-> dirs]]
    /\ IF BodyErrs(Payloads[p]) # {}
       THEN /\ pc' = [pc EXCEPT ![w] = "returning"]
            /\ resp' = [resp EXCEPT ![w] = Invalid(BodyErrs(Payloads[p]))]
            /\ UNCHANGED payload
       ELSE /\ pc' = [pc EXCEPT ![w] = "validated"]
            /\ payload' = [payload EXCEPT ![w] = VPC(Payloads[p])]
            /\ UNCHANGED resp
    /\ UNCHANGED <<output_path, hcl_content, files, dirs, hcl2_installed, fsize_limit,
                   prev, lastWrite>>

\* create_vpc, up to the call of the converter: the destination is resolved
\* and its parent directory is made.
Prepare(w) ==
    /\ pc[w] = "validated"
    /\ LET path == OutputPath(payload[w].conf_path) IN
       /\ output_path' = [output_path EXCEPT ![w] = path]
       /\ IF MkdirOk(Parent(path))
          THEN /\ dirs' = dirs \cup Ancestors(Parent(path))
               /\ pc' = [pc EXCEPT ![w] = "prepared"]
               /\ UNCHANGED resp
          ELSE /\ pc' = [pc EXCEPT ![w] = "returning"]
               /\ resp' = [resp EXCEPT ![w] = Failed("mkdir")]
               /\ UNCHANGED dirs
    /\ UNCHANGED <<pid, payload, hcl_content, start, files, hcl2_installed, fsize_limit,
                   served, prev, lastWrite>>

\* A mutant of ConvertOpen: the destination is opened before the encoding.
ConvertOpenTruncFirst(w) ==
    /\ pc[w] = "prepared"
    /\ IF ~OpenOk(output_path[w])
       THEN /\ pc' = [pc EXCEPT ![w] = "returning"]
            /\ resp' = [resp EXCEPT ![w] = Failed("open")]
            /\ UNCHANGED <<hcl_content, files>>
       ELSE /\ files' = OpenW(files, output_path[w])
            /\ IF ~hcl2_installed
               THEN /\ pc' = [pc EXCEPT ![w] = "returning"]
                    /\ resp' = [resp EXCEPT ![w] = Failed("encode")]
                    /\ UNCHANGED hcl_content
               ELSE /\ hcl_content' = [hcl_content EXCEPT ![w] =
                          writes(Normalize(model_dump(payload[w].terragrunt)))]
                    /\ pc' = [pc EXCEPT ![w] = "opened"]
                    /\ UNCHANGED resp
    /\ UNCHANGED <<pid, payload, output_path, start, dirs, hcl2_installed, fsize_limit,
                   served, prev, lastWrite>>

\* A mutant of ConvertOpen: the sentinel is written into the model itself.
ConvertOpenInPlace(w) ==
    /\ pc[w] = "prepared"
    /\ IF ~hcl2_installed
       THEN /\ pc' = [pc EXCEPT ![w] = "returning"]
            /\ resp' = [resp EXCEPT ![w] = Failed("encode")]
            /\ UNCHANGED <<hcl_content, files, payload>>
       ELSE /\ payload' = [payload EXCEPT
                             ![w].terragrunt.include.path = Sentinel]
            /\ hcl_content' = [hcl_content EXCEPT ![w] =
                   writes(model_dump(payload'[w].terragrunt))]
            /\ IF OpenOk(output_path[w])
               THEN /\ files' = OpenW(files, output_path[w])
                    /\ pc' = [pc EXCEPT ![w] = "opened"]
                    /\ UNCHANGED resp
               ELSE /\ pc' = [pc EXCEPT ![w] = "returning"]
                    /\ resp' = [resp EXCEPT ![w] = Failed("open")]
                    /\ UNCHANGED files
    /\ UNCHANGED <<pid, output_path, start, dirs, hcl2_installed, fsize_limit,
                   served, prev, lastWrite>>

\* generate_terragrunt_hcl_from_model, up to open(): import, dump,
\* normalize, encode, then open the destination for writing.
ConvertOpen(w) ==
    /\ pc[w] = "prepared"
    /\ IF ~hcl2_installed
       THEN /\ pc' = [pc EXCEPT ![w] = "returning"]
            /\ resp' = [resp EXCEPT ![w] = Failed("encode")]
            /\ UNCHANGED <<hcl_content, files>>
       ELSE LET json_data == Normalize(model_dump(payload[w].terragrunt)) IN
            /\ hcl_content' = [hcl_content EXCEPT ![w] = writes(json_data)]
            /\ IF OpenOk(output_path[w])
               THEN /\ files' = OpenW(files, output_path[w])
                    /\ pc' = [pc EXCEPT ![w] = "opened"]
                    /\ UNCHANGED resp
               ELSE /\ pc' = [pc EXCEPT ![w] = "returning"]
                    /\ resp' = [resp EXCEPT ![w] = Failed("open")]
                    /\ UNCHANGED files
    /\ UNCHANGED <<pid, payload, output_path, start, dirs, hcl2_installed, fsize_limit,
                   served, prev, lastWrite>>

\* f.write(hcl_content), the close of the file, and the return of both
\* functions; or a write that raises part of the way.
WriteClose(w) ==
    /\ pc[w] = "opened"
    /\ LET data == Written(hcl_content[w], fsize_limit)
           path == output_path[w]
       IN  /\ files' = Put(files, path, Pwrite(files[path], data))
           /\ lastWrite' = Put(lastWrite, path,
                               [text |-> hcl_content[w],
                                complete |-> data = hcl_content[w]])
           /\ resp' = [resp EXCEPT ![w] =
                         IF data = hcl_content[w]
                         THEN ResponseBody(path, hcl_content[w], payload[w])
                         ELSE Failed("write")]
    /\ pc' = [pc EXCEPT ![w] = "returning"]
    /\ UNCHANGED <<pid, payload, output_path, hcl_content, start, dirs,
                   hcl2_installed, fsize_limit, served, prev>>

\* The response reaches the client, which reads the destination file back
\* after a 200; the worker is free again.
Return(w) ==
    /\ pc[w] = "returning"
    /\ prev' = [pid |-> pid[w], status |-> resp[w].status,
                hcl_path |-> resp[w].hcl_path, hcl |-> resp[w].hcl,
                file |-> IF resp[w].status = 200 THEN files[resp[w].hcl_path]
                         ELSE ""]
    /\ pc' = [pc EXCEPT ![w] = "idle"]
    /\ pid' = [pid EXCEPT ![w] = 0]
    /\ payload' = [payload EXCEPT ![w] = <<>>]
    /\ output_path' = [output_path EXCEPT ![w] = <<>>]
    /\ hcl_content' = [hcl_content EXCEPT ![w] = ""]
    /\ resp' = [resp EXCEPT ![w] = NoResp]
    /\ start' = [start EXCEPT ![w] = <<>>]
    /\ UNCHANGED <<files, dirs, hcl2_installed, fsize_limit, served, lastWrite>>

\* One server process: the handler is a coroutine that never awaits, so the
\* event loop runs it from its first line to its return before anything else.
Next ==
    \/ \E p \in PayloadIds : Receive(1, p)
    \/ Prepare(1)
    \/ ConvertOpen(1)
    \/ WriteClose(1)
    \/ Return(1)
Spec == Init /\ [][Next]_vars

\* Several server processes on one file system: each runs its own requests
\* one at a time, and their system calls interleave.
NextWorkers ==
    \/ \E w \in Workers, p \in PayloadIds : Receive(w, p)
    \/ \E w \in Workers : Prepare(w)
    \/ \E w \in Workers : ConvertOpen(w)
    \/ \E w \in Workers : WriteClose(w)
    \/ \E w \in Workers : Return(w)
InitWorkers ==
    /\ Init
    /\ fsize_limit = NoLimit \/ fsize_limit % WorkerLimitStep = 0
SpecWorkers == InitWorkers /\ [][NextWorkers]_vars

\* ------------------------------------------------------- properties -----
Body(w)      == Payloads[pid[w]]
InHand(w)    == pid[w] # 0
\* the request in hand passed validation: payload[w] is its VPC object
Validated(w) ==
    \/ pc[w] \in {"validated", "prepared", "opened"}
    \/ pc[w] = "returning" /\ resp[w].status # 422
Succeeded(w) == pc[w] = "returning" /\ resp[w].status = 200
Locs(errs)   == {e.loc : e \in errs}

\* the parts of a body, an absent one standing as an empty object
WTerragrunt(b) == Sub(b, "terragrunt")
WInclude(b)    == Sub(WTerragrunt(b), "include")
WTerraform(b)  == Sub(WTerragrunt(b), "terraform")
WInputs(b)     == Sub(WTerragrunt(b), "inputs")

\* ---- C1 ----------------------------------------------------------------
\* C1: for every valid request, whatever the payload gives for
\* terragrunt.include.path, the tree that is encoded has include.path equal
\* to the sentinel, and so has the text that is produced, written to the file
\* and returned as `hcl`.
C1_OverrideInvariant ==
    \A w \in Workers :
      /\ Validated(w) =>
           Get(Get(Normalize(model_dump(payload[w].terragrunt)), "include"),
               "path") = JStr(Sentinel)
      /\ pc[w] = "opened" => ParseIncludePath(hcl_content[w]) = Sentinel
      /\ Succeeded(w) =>
           /\ ParseIncludePath(resp[w].hcl) = Sentinel
           /\ ParseIncludePath(files[resp[w].hcl_path]) = Sentinel
\* a request that gave an explicit include path has been answered 200
C1_Witness ==
    \E w \in Workers :
      /\ Succeeded(w)
      /\ payload[w].terragrunt.include.path \notin {Sentinel, ""}

\* ---- C2 ----------------------------------------------------------------
SourceLoc == <<"body", "terragrunt", "terraform", "source">>
\* the body has no terragrunt.terraform.source: the key, the terraform
\* object or the terragrunt object is left out
OmitsSource(b) ==
    /\ b.kind = "object"
    /\ WTerragrunt(b).kind = "object"
    /\ WTerraform(b).kind = "object"
    /\ ~Has(WTerraform(b), "source")

\* C2: a request whose payload omits terragrunt.terraform.source is answered
\* 422 with an error naming that field as missing, and is never accepted.
\* Terraform.source is declared with a default, so the property fails: the
\* body {} is answered 200 with the default source.
C2_OmittedSourceRejected ==
    \A w \in Workers :
      InHand(w) /\ OmitsSource(Body(w)) =>
        /\ pc[w] = "returning"
        /\ resp[w].status = 422
        /\ Err(SourceLoc, "missing") \in resp[w].detail

\* ---- C3 ----------------------------------------------------------------
\* C3: a payload that fails validation never reaches the handler: the request
\* is answered 422 with the validation errors, no path is resolved, nothing
\* is encoded, and files and directories are as they were when it came in.
C3_InvalidNeverConverted ==
    \A w \in Workers :
      InHand(w) /\ BodyErrs(Body(w)) # {} =>
        /\ pc[w] = "returning"
        /\ resp[w].status = 422
        /\ resp[w].detail = BodyErrs(Body(w))
        /\ output_path[w] = <<>>
        /\ hcl_content[w] = ""
        /\ files = start[w].files
        /\ dirs = start[w].dirs
\* a body with two missing names has been answered 422
C3_Witness ==
    \E w \in Workers :
      /\ pc[w] = "returning"
      /\ resp[w].status = 422
      /\ Cardinality(resp[w].detail) >= 2

\* ---- C4 ----------------------------------------------------------------
\* C4: when a request has succeeded in the single server process, the file at
\* the returned hcl_path holds exactly the returned hcl text, whatever it
\* held before; and that is what the client reads back.
C4_WriteReturnConsistency ==
    /\ \A w \in Workers :
         Succeeded(w) =>
           /\ resp[w].hcl_path \in DOMAIN files
           /\ files[resp[w].hcl_path] = resp[w].hcl
    /\ prev.status = 200 => prev.file = prev.hcl
\* a success over a file that held a longer text when the request came in
C4_Witness ==
    \E w \in Workers :
      /\ Succeeded(w)
      /\ resp[w].hcl_path \in DOMAIN start[w].files
      /\ Len(start[w].files[resp[w].hcl_path]) > Len(resp[w].hcl)

\* ---- C5 ----------------------------------------------------------------
\* every request ends with the whole text written and returned, or with an
\* error and the files as they were, unless the error came after the open
C5_AllOrNothing ==
    \A w \in Workers :
      /\ pc[w] \in {"validated", "prepared"} => files = start[w].files
      /\ pc[w] = "returning" =>
           \/ /\ resp[w].status = 200
              /\ resp[w].hcl = hcl_content[w]
              /\ files[output_path[w]] = hcl_content[w]
           \/ /\ resp[w].status # 200
              /\ resp[w].stage # "write"
              /\ files = start[w].files
           \/ /\ resp[w].status = 500
              /\ resp[w].stage = "write"
              /\ \A q \in DOMAIN start[w].files \ {output_path[w]} :
                    q \in DOMAIN files /\ files[q] = start[w].files[q]
\* a request that has its response takes no further step but its return
C5_NoRetry ==
    \A w \in Workers :
      pc[w] = "returning" =>
        /\ pc'[w] \in {"returning", "idle"}
        /\ files' = files
        /\ dirs' = dirs
\* C5: no partial success and no retry: a request ends with the full text
\* written and returned, or with an error and the destination untouched
\* (an encoding failure included), except for a failure after the open; and
\* once it has failed no step of it is run again.
C5_NoPartialSuccess == []C5_AllOrNothing /\ [][C5_NoRetry]_vars
\* an encoding failure on a destination that held a text
C5_Witness ==
    \E w \in Workers :
      /\ pc[w] = "returning"
      /\ resp[w].stage = "encode"
      /\ output_path[w] \in DOMAIN files
      /\ files[output_path[w]] # ""

\* ---- C6 ----------------------------------------------------------------
\* C6 as claimed: once every request has completed, a file whose last write
\* was a complete one holds exactly the text of that write.
C6_LastWriterWins ==
    (\A w \in Workers : pc[w] = "idle") =>
      \A path \in DOMAIN lastWrite :
        lastWrite[path].complete => files[path] = lastWrite[path].text

\* ---- C7 ----------------------------------------------------------------
\* C7: when the request just answered 200 is the one that was answered 200
\* right before it, both responses carry the same hcl and hcl_path and the
\* file holds what the client read back after the first.
C7_Idempotence ==
    \A w \in Workers :
      Succeeded(w) /\ prev.status = 200 /\ prev.pid = pid[w] =>
        /\ resp[w].hcl = prev.hcl
        /\ resp[w].hcl_path = prev.hcl_path
        /\ files[resp[w].hcl_path] = prev.file
\* the same request answered 200 twice in a row
C7_Witness ==
    \E w \in Workers :
      Succeeded(w) /\ prev.status = 200 /\ prev.pid = pid[w]

\* ---- C8 ----------------------------------------------------------------
IncludePathLoc == <<"body", "terragrunt", "include", "path">>
\* the body gives terragrunt.include.path as a string
GivesIncludePath(b) ==
    /\ b.kind = "object"
    /\ WTerragrunt(b).kind = "object"
    /\ WInclude(b).kind = "object"
    /\ Has(WInclude(b), "path")
    /\ Get(WInclude(b), "path").kind = "string"

\* C8 as claimed: the path of a validated Include is never the empty string.
C8_IncludePathNeverEmpty ==
    \A w \in Workers :
      Validated(w) => payload[w].terragrunt.include.path # ""

\* C8 as amended: the path of a validated Include is the string the payload
\* gave for it, the empty string included, which validation does not
\* refuse; it is the sentinel when the payload gave none.
C8_IncludePathAsGiven ==
    \A w \in Workers :
      InHand(w) =>
        /\ GivesIncludePath(Body(w)) =>
             /\ IncludePathLoc \notin Locs(BodyErrs(Body(w)))
             /\ pc[w] = "returning" /\ resp[w].status = 422 =>
                  IncludePathLoc \notin Locs(resp[w].detail)
             /\ Validated(w) =>
                  payload[w].terragrunt.include.path =
                      Get(WInclude(Body(w)), "path").val
        /\ Validated(w) /\ ~Has(WInclude(Body(w)), "path") =>
             payload[w].terragrunt.include.path = Sentinel
\* a validated request that gave the empty string
C8_Witness ==
    \E w \in Workers :
      /\ Validated(w)
      /\ GivesIncludePath(Body(w))
      /\ payload[w].terragrunt.include.path = ""

\* ---- C9 ----------------------------------------------------------------
HookCollections      == {"commands", "execute", "env_vars"}
ArgumentCollections  == {"commands", "arguments", "optional_var_files",
                         "env_vars"}
TerraformCollections == {"include_in_copy", "extra_arguments", "before_hook",
                         "after_hook"}
InputsCollections    == {"public_subnets", "tags"}
\* the fields of `names` that the wire object leaves out are empty in m
AbsentAreEmpty(wire, m, names) ==
    \A f \in names : ~Has(wire, f) => m[f] = <<>>
\* the same for every item of a list field of terraform
ItemsAbsentAreEmpty(b, m, field, names) ==
    \A i \in 1..Len(m[field]) :
      AbsentAreEmpty(Get(WTerraform(b), field).val[i], m[field][i], names)
CodeCollectionsEmpty(w) ==
    LET tf == payload[w].terragrunt.terraform IN
    /\ AbsentAreEmpty(WTerraform(Body(w)), tf, TerraformCollections)
    /\ ItemsAbsentAreEmpty(Body(w), tf, "before_hook", HookCollections)
    /\ ItemsAbsentAreEmpty(Body(w), tf, "after_hook", HookCollections)
    /\ ItemsAbsentAreEmpty(Body(w), tf, "extra_arguments", ArgumentCollections)

\* C9 as claimed: every list and mapping field of Hook, ExtraArguments,
\* Terraform and Inputs that the payload leaves out is empty in the
\* validated object.
C9_AbsentCollectionsEmpty ==
    \A w \in Workers :
      Validated(w) =>
        /\ CodeCollectionsEmpty(w)
        /\ AbsentAreEmpty(WInputs(Body(w)), payload[w].terragrunt.inputs,
                          InputsCollections)

\* C9 as amended: every list and mapping field of Hook, ExtraArguments and
\* Terraform that the payload leaves out is empty in the validated object;
\* of Inputs, public_subnets left out is the two default subnets and tags
\* left out is the two default tags.
C9_AbsentCollectionsDefault ==
    \A w \in Workers :
      Validated(w) =>
        /\ CodeCollectionsEmpty(w)
        /\ ~Has(WInputs(Body(w)), "public_subnets") =>
             payload[w].terragrunt.inputs.public_subnets = DefaultPublicSubnets
        /\ ~Has(WInputs(Body(w)), "tags") =>
             payload[w].terragrunt.inputs.tags = DefaultTags
\* a validated request with a hook that names no commands and with no inputs
C9_Witness ==
    \E w \in Workers :
      /\ Validated(w)
      /\ Len(payload[w].terragrunt.terraform.before_hook) > 0
      /\ ~Has(Get(WTerraform(Body(w)), "before_hook").val[1], "commands")
      /\ ~Has(WInputs(Body(w)), "tags")

\* ---- C10 ---------------------------------------------------------------
\* C10: through the conversion, and after it has returned or raised, the
\* validated object is the one validation built; the echo of a 200 is its
\* dump, include.path as the caller gave it, while the hcl text carries the
\* sentinel.
C10_ModelUntouched ==
    \A w \in Workers :
      /\ Validated(w) => payload[w] = VPC(Body(w))
      /\ Succeeded(w) =>
           /\ resp[w].payload = payload_dump(VPC(Body(w)))
           /\ Get(Get(Get(resp[w].payload, "terragrunt"), "include"), "path")
                = JStr(StrVal(WInclude(Body(w)), "path", Sentinel))
           /\ ParseIncludePath(resp[w].hcl) = Sentinel
\* a 200 whose echo carries an explicit include path
C10_Witness ==
    \E w \in Workers :
      /\ Succeeded(w)
      /\ GivesIncludePath(Body(w))
      /\ Get(Get(Get(resp[w].payload, "terragrunt"), "include"), "path").val
           \notin {Sentinel, ""}

=============================================================================
